---- MODULE Spec2Model ----
(***************************************************************************)
(* Rule-based visual question answering over a nuScenes driving scene:     *)
(* SceneFrame (scene_vqa.py) aggregates one InstanceFrame per object       *)
(* instance of a scene, answer() routes a question to a spatial query, and *)
(* the Streamlit script (instance_frame.py in this tree) builds the scene  *)
(* and shows answers and the quick summary.                                *)
(*                                                                         *)
(* Python strings are sequences of one-character strings, so that `in`,    *)
(* split, replace, lower and slicing are computed character by character.  *)
(***************************************************************************)
EXTENDS Integers, Sequences, FiniteSets, TLC

\* ------------------------------------------------------------------ bounds
NumSamples == 2       \* sample records in the dataset
MaxInst == 2          \* object instances in a generated dataset

\* ------------------------------------------------------- program constants
SummaryLimit == 200   \* full_desc[:200]

\* ----------------------------------------------------------- Python strings
LowerChar(c) ==
  CASE c = "H" -> "h" [] c = "I" -> "i" [] c = "W" -> "w" [] c = "D" -> "d"
    [] c = "P" -> "p" [] c = "O" -> "o" [] OTHER -> c

\* str.lower()
Lower(s) == [i \in 1..Len(s) |-> LowerChar(s[i])]

OccursAt(s, p, i) ==
  /\ i + Len(p) - 1 <= Len(s)
  /\ \A k \in 1..Len(p) : s[i + k - 1] = p[k]

\* p in s
Contains(s, p) == \E i \in 1..(Len(s) - Len(p) + 1) : OccursAt(s, p, i)

\* str.find(p, i) with 1-based positions, 0 when p does not occur
FindFrom(s, p, i) ==
  LET J == {j \in i..(Len(s) - Len(p) + 1) : OccursAt(s, p, j)}
  IN IF J = {} THEN 0 ELSE CHOOSE j \in J : \A k \in J : j <= k

RECURSIVE SplitFrom(_, _, _)
SplitFrom(s, p, i) ==
  LET j == FindFrom(s, p, i)
  IN IF j = 0 THEN <<SubSeq(s, i, Len(s))>>
     ELSE <<SubSeq(s, i, j - 1)>> \o SplitFrom(s, p, j + Len(p))

\* s.split(p): left-to-right, non-overlapping occurrences of the separator
Split(s, p) == SplitFrom(s, p, 1)

RECURSIVE Join(_, _)
\* sep.join(parts)
Join(parts, sep) ==
  IF Len(parts) = 0 THEN <<>>
  ELSE IF Len(parts) = 1 THEN parts[1]
  ELSE parts[1] \o sep \o Join(Tail(parts), sep)

\* s.replace(p, ""): every non-overlapping occurrence removed
Remove(s, p) == Join(Split(s, p), <<>>)

RECURSIVE WordsFrom(_, _)
WordsFrom(s, i) ==
  LET B == {j \in i..Len(s) : s[j] # " "}
  IN IF B = {} THEN <<>>
     ELSE LET b == CHOOSE j \in B : \A k \in B : j <= k
              E == {j \in b..Len(s) : s[j] = " "}
              e == IF E = {} THEN Len(s) + 1 ELSE CHOOSE j \in E : \A k \in E : j <= k
          IN <<SubSeq(s, b, e - 1)>> \o WordsFrom(s, e)

\* s.split() with no separator: the maximal runs of non-blank characters
Words(s) == WordsFrom(s, 1)

Last(seq) == seq[Len(seq)]

\* ------------------------------------------------------------ the dataset
Samples == 1..NumSamples
NoToken == 0          \* sample['next'] == '' on the last sample

CategoryNames == << <<"h","u","m","a","n",".","p","e","d","e","s","t","r","i","a","n",".","a","d","u","l","t">>, <<"v","e","h","i","c","l","e",".","b","u","s">>, <<"v","e","h","i","c","l","e",".","t","r","u","c","k">> >>

\* Ego-relative offsets with integral Euclidean norm:
\* x lateral (negative left), y longitudinal (positive ahead).
Profiles == <<
  [cat |-> 1, shape |-> "all",   off |-> <<-3, 4>>],
  [cat |-> 1, shape |-> "all",   off |-> <<3, -4>>],
  [cat |-> 1, shape |-> "flip",  off |-> <<-3, 4>>],
  [cat |-> 2, shape |-> "all",   off |-> <<6, 8>>],
  [cat |-> 3, shape |-> "all",   off |-> <<0, -4>>],
  [cat |-> 3, shape |-> "last",  off |-> <<-4, 0>>] >>

Annotated(p, s) ==
  CASE Profiles[p].shape = "all"  -> TRUE
    [] Profiles[p].shape = "flip" -> TRUE
    [] Profiles[p].shape = "last" -> s = NumSamples
    [] OTHER -> FALSE

OffsetAt(p, s) ==
  IF Profiles[p].shape = "flip" /\ s % 2 = 0
  THEN <<0 - Profiles[p].off[1], 0 - Profiles[p].off[2]>>
  ELSE Profiles[p].off

\* global ego position at sample s: the ego vehicle drives forward
EgoAt(s) == <<0, 2 * (s - 1)>>

InstSeqs ==
  { q \in UNION {[1..k -> 1..Len(Profiles)] : k \in 0..MaxInst} :
      \A i \in 1..(Len(q) - 1) : q[i] <= q[i + 1] }

\* the scene of five pedestrians, three on the left and two on the right
ScenarioSeqs == { <<1, 1, 1, 2, 2>> }

\* next-links: samples are numbered in recording order, so a link goes to the
\* following sample or (a corrupt table) back to a sample already seen;
\* samples that the first sample does not lead to have no successor
RECURSIVE Reach(_, _, _)
Reach(next, s, seen) ==
  IF s = NoToken \/ s \in seen THEN seen ELSE Reach(next, next[s], seen \cup {s})

Chains ==
  { next \in [Samples -> {NoToken} \cup Samples] :
      /\ \A s \in Samples : next[s] <= s + 1
      /\ \A s \in Samples : s \notin Reach(next, 1, {}) => next[s] = NoToken }

AnnId(i, s) == (i - 1) * NumSamples + s
AnnInst(a) == ((a - 1) \div NumSamples) + 1
AnnSample(a) == ((a - 1) % NumSamples) + 1

RECURSIVE AnnsOf(_, _, _)
AnnsOf(q, s, i) ==
  IF i > Len(q) THEN <<>>
  ELSE (IF Annotated(q[i], s) THEN <<AnnId(i, s)>> ELSE <<>>) \o AnnsOf(q, s, i + 1)

Dataset(next, q) ==
  [ first_sample_token |-> 1,
    next |-> next,
    ego  |-> [s \in Samples |-> EgoAt(s)],
    anns |-> [s \in Samples |-> AnnsOf(q, s, 1)],
    ann  |-> [a \in 1..(Len(q) * NumSamples) |->
                [ instance_token |-> AnnInst(a),
                  category_name  |-> CategoryNames[Profiles[q[AnnInst(a)]].cat],
                  translation    |-> << EgoAt(AnnSample(a))[1] + OffsetAt(q[AnnInst(a)], AnnSample(a))[1],
                                        EgoAt(AnnSample(a))[2] + OffsetAt(q[AnnInst(a)], AnnSample(a))[2] >> ]] ]

Datasets == { Dataset(next, q) : next \in Chains, q \in InstSeqs \cup ScenarioSeqs }

\* PYTHONHASHSEED of the interpreter: fixes the iteration order of every set of strings
HashSeeds == {"asc", "desc"}


VARIABLES
  nusc,           \* the dataset (read-only input)
  hash_seed,      \* string-hash seed of the running interpreter
  USE_GPT,        \* module global: the summarization client was imported
  pc,             \* "init" | "walk" | "built" | "answered" | "failed"
  sample_token,   \* _build_instances: loop variable
  annotations,    \* _build_instances: annotation tokens collected so far
  walked,         \* the samples fetched by the loop, in order
  scene_frame,    \* the SceneFrame under construction / built
  prev_run,       \* the SceneFrame built by the previous run of the script, and its hash seed
  call,           \* the last query: operation, arguments and what it returned
  error           \* exception that ended the build

vars == <<nusc, hash_seed, USE_GPT, pc, sample_token, annotations, walked,
          scene_frame, prev_run, call, error>>

NoFrame == [built |-> FALSE, scene_ego_positions |-> <<>>, instances |-> <<>>]
NoRun == [scene_frame |-> NoFrame, hash_seed |-> ""]

\* ---------------------------------------------------------- query results
StrVal(s) == [kind |-> "str", str |-> s, int |-> 0, exc |-> ""]
IntVal(n) == [kind |-> "int", str |-> <<>>, int |-> n, exc |-> ""]
Raised(e) == [kind |-> "raise", str |-> <<>>, int |-> 0, exc |-> e]

NoCall == [op |-> "", question |-> <<>>, obj |-> <<>>, direction |-> "",
           handler |-> "", result |-> StrVal(<<>>)]

\* -------------------------------------------------------- building a scene
RECURSIVE EgoWalk(_, _, _)
EgoWalk(ds, s, acc) ==
  IF s = NoToken THEN [ok |-> TRUE, positions |-> acc]
  ELSE IF \E k \in 1..Len(acc) : acc[k].sample = s THEN [ok |-> FALSE, positions |-> acc]
  ELSE EgoWalk(ds, ds.next[s], Append(acc, [sample |-> s, pos |-> ds.ego[s]]))

\* compute_scene_ego_positions(nusc, scene_index): the ego position of every
\* sample of the chain in order; a chain that comes back to a sample is corrupt
compute_scene_ego_positions(ds) == EgoWalk(ds, ds.first_sample_token, <<>>)

RECURSIVE Ascending(_)
Ascending(S) ==
  IF S = {} THEN <<>>
  ELSE LET m == CHOOSE x \in S : \A y \in S : x <= y
       IN <<m>> \o Ascending(S \ {m})

Reverse(seq) == [i \in 1..Len(seq) |-> seq[Len(seq) + 1 - i]]

\* iteration order of a Python set: fixed by the hash seed, not by the program
SetOrder(seed, S) == IF seed = "asc" THEN Ascending(S) ELSE Reverse(Ascending(S))

HasAnn(ds, token, s) ==
  \E k \in 1..Len(ds.anns[s]) : ds.ann[ds.anns[s][k]].instance_token = token

AnnAt(ds, token, s) ==
  ds.ann[CHOOSE a \in {ds.anns[s][k] : k \in 1..Len(ds.anns[s])} : ds.ann[a].instance_token = token]

RECURSIVE RelativeLocations(_, _, _, _)
RelativeLocations(ds, token, ego, k) ==
  IF k > Len(ego) THEN <<>>
  ELSE (IF HasAnn(ds, token, ego[k].sample)
        THEN << << AnnAt(ds, token, ego[k].sample).translation[1] - ego[k].pos[1],
                   AnnAt(ds, token, ego[k].sample).translation[2] - ego[k].pos[2] >> >>
        ELSE <<>>) \o RelativeLocations(ds, token, ego, k + 1)

FirstSampleOf(ds, token, ego) ==
  ego[CHOOSE k \in 1..Len(ego) : HasAnn(ds, token, ego[k].sample)
                                  /\ \A j \in 1..(k - 1) : ~HasAnn(ds, token, ego[j].sample)].sample

\* InstanceFrame(nusc, token, scene_index, scene_ego_positions, ego_start_time)
InstanceFrame(ds, token, ego) ==
  [ token         |-> token,
    category_name |-> AnnAt(ds, token, FirstSampleOf(ds, token, ego)).category_name,
    locations     |-> RelativeLocations(ds, token, ego, 1) ]

\* ------------------------------------------------------ directional tests
RECURSIVE SumAxis(_, _)
SumAxis(locs, axis) ==
  IF Len(locs) = 0 THEN 0 ELSE locs[1][axis] + SumAxis(Tail(locs), axis)

\* np.mean of one coordinate as the exact fraction sum / count
MeanAxis(inst, axis) == [num |-> SumAxis(inst.locations, axis), den |-> Len(inst.locations)]

\* fraction > 0 and fraction < 0 (den > 0)
Positive(f) == f.num > 0 * f.den
Negative(f) == f.num < 0 * f.den

is_ahead(inst) == Positive(MeanAxis(inst, 2))
\* is_behind written as the complement of is_ahead (mean <= 0)
is_behindInclusive(inst) == ~Positive(MeanAxis(inst, 2))

is_behind(inst) == Negative(MeanAxis(inst, 2))
is_left(inst) == Negative(MeanAxis(inst, 1))
is_right(inst) == Positive(MeanAxis(inst, 1))

Directions == <<"ahead", "behind", "left", "right">>
DirectionText(d) ==
  CASE d = "ahead" -> <<"a","h","e","a","d">> [] d = "behind" -> <<"b","e","h","i","n","d">>
    [] d = "left" -> <<"l","e","f","t">> [] d = "right" -> <<"r","i","g","h","t">>

\* getattr(self, f"is_{direction}")(inst)
IsDirection(d, inst) ==
  CASE d = "ahead" -> is_ahead(inst)
    [] d = "behind" -> is_behind(inst)
    [] d = "left" -> is_left(inst)
    [] d = "right" -> is_right(inst)


\* ------------------------------------------------------------ SceneFrame
Matching(sf, obj) ==
  SelectSeq(sf.instances, LAMBDA inst : Contains(inst.category_name, obj))

\* query_exist that drops its direction argument and always tests "ahead"
query_existAheadOnly(sf, obj, direction) ==
  \E k \in 1..Len(sf.instances) :
     /\ Contains(sf.instances[k].category_name, obj)
     /\ IsDirection("ahead", sf.instances[k])

\* SceneFrame.query_exist(obj, direction)
query_exist(sf, obj, direction) ==
  \E k \in 1..Len(sf.instances) :
     /\ Contains(sf.instances[k].category_name, obj)
     /\ IsDirection(direction, sf.instances[k])

\* SceneFrame.query_count(obj, direction); direction "" is None
query_count(sf, obj, direction) ==
  LET objs == Matching(sf, obj)
  IN IF direction # ""
     THEN Len(SelectSeq(objs, LAMBDA inst : IsDirection(direction, inst)))
     ELSE Len(objs)

\* InstanceFrame.describe_movement(): category and the two-axis judgment
describe_movement(inst) ==
  inst.category_name \o <<" ","i","s"," ">>
    \o (IF Positive(MeanAxis(inst, 2)) THEN <<"a","h","e","a","d">> ELSE <<"b","e","h","i","n","d">>)
    \o <<" ","a","n","d"," ","t","o"," ","t","h","e"," ">>
    \o (IF Negative(MeanAxis(inst, 1)) THEN <<"l","e","f","t">> ELSE <<"r","i","g","h","t">>)
    \o <<".">>

\* summarize_scene(scene_frame)
summarize_scene(sf) ==
  Join([k \in 1..Len(sf.instances) |-> describe_movement(sf.instances[k])], <<" ">>)

\* ------------------------------------------------------------- distances
\* np.linalg.norm(loc): exact on the offsets of the datasets (integral norms)
Norm(loc) ==
  LET a == IF loc[1] < 0 THEN 0 - loc[1] ELSE loc[1]
      b == IF loc[2] < 0 THEN 0 - loc[2] ELSE loc[2]
  IN CHOOSE n \in 0..(a + b) : n * n = a * a + b * b

RECURSIVE SumNorm(_)
SumNorm(locs) == IF Len(locs) = 0 THEN 0 ELSE Norm(locs[1]) + SumNorm(Tail(locs))

\* np.mean([np.linalg.norm(loc) for loc in inst.locations]) as a fraction
MeanDistance(inst) == [num |-> SumNorm(inst.locations), den |-> Len(inst.locations)]

Infinity == [num |-> 1, den |-> 0]   \* float('inf')

\* a < b on fractions and infinity
Less(a, b) ==
  IF a.den = 0 THEN FALSE
  ELSE IF b.den = 0 THEN TRUE
  ELSE a.num * b.den < b.num * a.den

RECURSIVE MinOf(_)
\* min(list): the first smallest element
MinOf(ds) ==
  IF Len(ds) = 1 THEN ds[1]
  ELSE LET m == MinOf(Tail(ds)) IN IF Less(m, ds[1]) THEN m ELSE ds[1]

\* min([mean distance of the matching instances] or [float('inf')])
NearestDistance(sf, obj) ==
  LET m == Matching(sf, obj)
      ds == [k \in 1..Len(m) |-> MeanDistance(m[k])]
  IN MinOf(IF Len(ds) = 0 THEN <<Infinity>> ELSE ds)

\* ------------------------------------------------------------------ answer
PassengerText == <<"P","a","s","s","e","n","g","e","r"," ","i","n","f","o","r","m","a","t","i","o","n"," ","i","s"," ","n","o","t"," ","a","v","a","i","l","a","b","l","e"," ","i","n"," ","n","u","S","c","e","n","e","s"," ","d","a","t","a","s","e","t",".">>
NotSupportedText == <<"Q","u","e","s","t","i","o","n"," ","t","y","p","e"," ","n","o","t"," ","s","u","p","p","o","r","t","e","d",".">>

\* next((d for d in ["ahead", "behind", "left", "right"] if d in q), default)
FirstDirection(q, default) ==
  LET D == {k \in 1..Len(Directions) : Contains(q, DirectionText(Directions[k]))}
  IN IF D = {} THEN default
     ELSE Directions[CHOOSE k \in D : \A j \in D : k <= j]

\* ", ".join(set(inst.category_name for inst in scene_frame.instances))
CategoryList(sf, seed) ==
  LET I == {c \in 1..Len(CategoryNames) :
              \E k \in 1..Len(sf.instances) : sf.instances[k].category_name = CategoryNames[c]}
      order == SetOrder(seed, I)
  IN Join([k \in 1..Len(order) |-> CategoryNames[order[k]]], <<","," ">>)

\* Route with the 'how many' test moved in front of the 'is there' test
RouteSwapped(q) ==
  IF Contains(q, <<"p","a","s","s","e","n","g","e","r">>) THEN "passenger"
  ELSE IF Contains(q, <<"h","o","w"," ","m","a","n","y">>) THEN "count"
  ELSE IF Contains(q, <<"i","s"," ","t","h","e","r","e">>) THEN "exist"
  ELSE IF Contains(q, <<"w","h","a","t"," ","o","b","j","e","c","t","s">>) \/ Contains(q, <<"w","h","a","t"," ","i","s">>) THEN "list"
  ELSE IF Contains(q, <<"w","h","i","c","h"," ","i","s"," ","c","l","o","s","e","r">>) THEN "closer"
  ELSE IF Contains(q, <<"d","e","s","c","r","i","b","e"," ","t","h","e"," ","s","c","e","n","e">>) THEN "describe"
  ELSE "unsupported"

\* the if / elif chain of answer(): which branch runs for the lower-cased question
Route(q) ==
  IF Contains(q, <<"p","a","s","s","e","n","g","e","r">>) THEN "passenger"
  ELSE IF Contains(q, <<"i","s"," ","t","h","e","r","e">>) THEN "exist"
  ELSE IF Contains(q, <<"h","o","w"," ","m","a","n","y">>) THEN "count"
  ELSE IF Contains(q, <<"w","h","a","t"," ","o","b","j","e","c","t","s">>) \/ Contains(q, <<"w","h","a","t"," ","i","s">>) THEN "list"
  ELSE IF Contains(q, <<"w","h","i","c","h"," ","i","s"," ","c","l","o","s","e","r">>) THEN "closer"
  ELSE IF Contains(q, <<"d","e","s","c","r","i","b","e"," ","t","h","e"," ","s","c","e","n","e">>) THEN "describe"
  ELSE "unsupported"

ExistAnswer(sf, q) ==
  LET words == Words(Last(Split(q, <<"i","s"," ","t","h","e","r","e"," ","a"," ">>)))
  IN IF Len(words) = 0 THEN Raised("IndexError")
     ELSE IF query_exist(sf, words[1], FirstDirection(q, "ahead"))
          THEN StrVal(<<"Y","e","s">>) ELSE StrVal(<<"N","o">>)

CountAnswer(sf, q) ==
  LET words == Words(Last(Split(q, <<"h","o","w"," ","m","a","n","y"," ">>)))
  IN IF Len(words) = 0 THEN Raised("IndexError")
     ELSE IntVal(query_count(sf, words[1], FirstDirection(q, "")))

CloserAnswer(sf, q) ==
  LET tokens == Split(Remove(q, <<"w","h","i","c","h"," ","i","s"," ","c","l","o","s","e","r",","," ">>), <<" ","o","r"," ">>)
  IN IF Len(tokens) < 2 THEN Raised("IndexError")
     ELSE IF Less(NearestDistance(sf, tokens[1]), NearestDistance(sf, tokens[2]))
          THEN StrVal(tokens[1]) ELSE StrVal(tokens[2])

\* answer(scene_frame, question): the branch taken and the value returned or
\* the exception raised
answer(sf, seed, question) ==
  LET q == Lower(question)
      h == Route(q)
  IN [ handler |-> h,
       result  |->
         CASE h = "passenger" -> StrVal(PassengerText)
           [] h = "exist" -> ExistAnswer(sf, q)
           [] h = "count" -> CountAnswer(sf, q)
           [] h = "list" -> StrVal(CategoryList(sf, seed))
           [] h = "closer" -> CloserAnswer(sf, q)
           [] h = "describe" -> StrVal(summarize_scene(sf))
           [] OTHER -> StrVal(NotSupportedText) ]

\* --------------------------------------------------- quick_scene_summary
GptErrorText == <<"S","c","e","n","e"," ","s","u","m","m","a","r","y"," ","u","n","a","v","a","i","l","a","b","l","e"," ","(","G","P","T"," ","e","r","r","o","r",")",".">>
GptTexts == { <<"T","r","a","f","f","i","c"," ","a","r","o","u","n","d"," ","t","h","e"," ","e","g","o"," ","v","e","h","i","c","l","e",".">> }   \* response.output_text

Truncated(s) ==
  IF Len(s) > SummaryLimit THEN SubSeq(s, 1, SummaryLimit) \o <<".",".",".">> ELSE s

\* quick_scene_summary without the try / except around the service call
quick_scene_summaryUncaught(sf, use_gpt, outcome, text) ==
  LET full_desc == summarize_scene(sf)
  IN IF use_gpt
     THEN IF outcome = "ok" THEN StrVal(text) ELSE Raised("APIError")
     ELSE StrVal(Truncated(full_desc))

\* quick_scene_summary(scene_frame); outcome is what client.responses.create did
quick_scene_summary(sf, use_gpt, outcome, text) ==
  LET full_desc == summarize_scene(sf)
  IN IF use_gpt
     THEN IF outcome = "ok" THEN StrVal(text) ELSE StrVal(GptErrorText)
     ELSE StrVal(Truncated(full_desc))


\* ------------------------------------------------------------ the inputs
Heads == { <<>>, <<"H","o","w"," ","m","a","n","y"," ">>, <<"I","s"," ","t","h","e","r","e"," ","a"," ">>, <<"W","h","i","c","h"," ","i","s"," ","c","l","o","s","e","r",","," ">>,
           <<"W","h","a","t"," ","o","b","j","e","c","t","s"," ","a","r","e"," ">>, <<"W","h","a","t"," ","i","s"," ">>, <<"D","e","s","c","r","i","b","e"," ","t","h","e"," ","s","c","e","n","e"," ">>,
           <<"P","a","s","s","e","n","g","e","r"," ">> }

Tails == { <<>>, <<"p","e","d","e","s","t","r","i","a","n","s"," ","a","r","e"," ","t","o"," ","m","y"," ","l","e","f","t","?">>, <<"p","e","d","e","s","t","r","i","a","n"," ","l","e","f","t">>,
           <<"b","u","s"," ","a","h","e","a","d","?">>, <<"b","u","s"," ","o","r"," ","t","r","u","c","k","?">>, <<"t","r","u","c","k"," ","o","r"," ","b","u","s">>,
           <<"t","r","u","c","k"," ","b","e","h","i","n","d"," ","h","o","w"," ","m","a","n","y"," ">>, <<"W","h","a","t"," ","c","o","l","o","r"," ","i","s"," ","t","h","e"," ","s","k","y","?">>,
           <<"i","s"," ","t","h","e","r","e"," ","a"," ">> }

Questions == { h \o t : h \in Heads, t \in Tails }

QueryObjects == { <<"p","e","d","e","s","t","r","i","a","n">>, <<"p","e","d","e","s","t","r","i","a","n","s">>, <<"b","u","s">>, <<"t","r","u","c","k">>, <<"v","e","h","i","c","l","e">> }

\* ---------------------------------------------------------------- actions
Init ==
  /\ nusc \in Datasets
  /\ hash_seed \in HashSeeds
  /\ USE_GPT \in BOOLEAN
  /\ pc = "init"
  /\ sample_token = NoToken
  /\ annotations = <<>>
  /\ walked = <<>>
  /\ scene_frame = NoFrame
  /\ prev_run = NoRun
  /\ call = NoCall
  /\ error = ""

\* SceneFrame.__init__: the ego track is computed before the instances
ComputeEgo ==
  /\ pc = "init"
  /\ LET r == compute_scene_ego_positions(nusc)
     IN IF r.ok
        THEN /\ scene_frame' = [scene_frame EXCEPT !.scene_ego_positions = r.positions]
             /\ sample_token' = nusc.first_sample_token
             /\ pc' = "walk"
             /\ error' = error
        ELSE /\ scene_frame' = scene_frame
             /\ sample_token' = sample_token
             /\ pc' = "failed"
             /\ error' = "CorruptSceneData"
  /\ UNCHANGED <<nusc, hash_seed, USE_GPT, annotations, walked, prev_run, call>>

\* the loop leaving after its first iteration instead of following sample['next']
WalkStepOnce ==
  /\ pc = "walk"
  /\ sample_token # NoToken
  /\ walked' = Append(walked, sample_token)
  /\ annotations' = annotations \o nusc.anns[sample_token]
  /\ sample_token' = NoToken
  /\ UNCHANGED <<nusc, hash_seed, USE_GPT, pc, scene_frame, prev_run, call, error>>

\* _build_instances: one iteration of `while sample_token`
WalkStep ==
  /\ pc = "walk"
  /\ sample_token # NoToken
  /\ walked' = Append(walked, sample_token)
  /\ annotations' = annotations \o nusc.anns[sample_token]
  /\ sample_token' = nusc.next[sample_token]
  /\ UNCHANGED <<nusc, hash_seed, USE_GPT, pc, scene_frame, prev_run, call, error>>

\* _build_instances after the loop: one InstanceFrame per distinct instance
\* token, in the iteration order of the set
BuildList ==
  /\ pc = "walk"
  /\ sample_token = NoToken
  /\ LET unique_instances ==
           {nusc.ann[annotations[k]].instance_token : k \in 1..Len(annotations)}
         order == SetOrder(hash_seed, unique_instances)
     IN scene_frame' =
          [scene_frame EXCEPT
             !.instances = [k \in 1..Len(order) |->
                              InstanceFrame(nusc, order[k], scene_frame.scene_ego_positions)],
             !.built = TRUE]
  /\ pc' = "built"
  /\ UNCHANGED <<nusc, hash_seed, USE_GPT, sample_token, annotations, walked,
                 prev_run, call, error>>

\* answer() that reorders scene_frame.instances in place while it answers
AnswerReordering ==
  /\ pc = "built"
  /\ \E question \in Questions :
       LET a == answer(scene_frame, hash_seed, question)
       IN call' = [op |-> "answer", question |-> question, obj |-> <<>>,
                   direction |-> "", handler |-> a.handler, result |-> a.result]
  /\ pc' = "answered"
  /\ scene_frame' = [scene_frame EXCEPT !.instances = Reverse(@)]
  /\ UNCHANGED <<nusc, hash_seed, USE_GPT, sample_token, annotations, walked,
                 prev_run, error>>

\* st.button("Get Answer"): answer(scene_frame, final_question)
Answer ==
  /\ pc = "built"
  /\ \E question \in Questions :
       LET a == answer(scene_frame, hash_seed, question)
       IN call' = [op |-> "answer", question |-> question, obj |-> <<>>,
                   direction |-> "", handler |-> a.handler, result |-> a.result]
  /\ pc' = "answered"
  /\ UNCHANGED <<nusc, hash_seed, USE_GPT, sample_token, annotations, walked,
                 scene_frame, prev_run, error>>

\* scene_frame.query_exist(obj, direction) called directly
QueryExist ==
  /\ pc = "built"
  /\ \E obj \in QueryObjects, k \in 1..Len(Directions) :
       call' = [op |-> "query_exist", question |-> <<>>, obj |-> obj,
                direction |-> Directions[k], handler |-> "",
                result |-> IF query_exist(scene_frame, obj, Directions[k])
                           THEN StrVal(<<"T","r","u","e">>) ELSE StrVal(<<"F","a","l","s","e">>)]
  /\ pc' = "answered"
  /\ UNCHANGED <<nusc, hash_seed, USE_GPT, sample_token, annotations, walked,
                 scene_frame, prev_run, error>>

\* scene_frame.query_count(obj, direction) called directly
QueryCount ==
  /\ pc = "built"
  /\ \E obj \in QueryObjects, d \in {""} \cup {Directions[k] : k \in 1..Len(Directions)} :
       call' = [op |-> "query_count", question |-> <<>>, obj |-> obj,
                direction |-> d, handler |-> "",
                result |-> IntVal(query_count(scene_frame, obj, d))]
  /\ pc' = "answered"
  /\ UNCHANGED <<nusc, hash_seed, USE_GPT, sample_token, annotations, walked,
                 scene_frame, prev_run, error>>

\* summarize_scene(scene_frame) called directly
SummarizeScene ==
  /\ pc = "built"
  /\ call' = [op |-> "summarize_scene", question |-> <<>>, obj |-> <<>>,
              direction |-> "", handler |-> "",
              result |-> StrVal(summarize_scene(scene_frame))]
  /\ pc' = "answered"
  /\ UNCHANGED <<nusc, hash_seed, USE_GPT, sample_token, annotations, walked,
                 scene_frame, prev_run, error>>

\* st.button("Quick Scene Summary"): the service call succeeds or raises
QuickSceneSummary ==
  /\ pc = "built"
  /\ \E outcome \in {"ok", "failed"}, text \in GptTexts :
       /\ USE_GPT \/ outcome = "ok"
       /\ call' = [op |-> "quick_scene_summary", question |-> <<>>, obj |-> <<>>,
                   direction |-> "",
                   handler |-> IF USE_GPT THEN outcome ELSE "no_client",
                   result |-> quick_scene_summary(scene_frame, USE_GPT, outcome, text)]
  /\ pc' = "answered"
  /\ UNCHANGED <<nusc, hash_seed, USE_GPT, sample_token, annotations, walked,
                 scene_frame, prev_run, error>>

\* the value is shown and the handler returns
Return ==
  /\ pc = "answered"
  /\ pc' = "built"
  /\ call' = NoCall
  /\ UNCHANGED <<nusc, hash_seed, USE_GPT, sample_token, annotations, walked,
                 scene_frame, prev_run, error>>

\* Streamlit runs the script again in the same interpreter: a fresh SceneFrame
Rerun ==
  /\ pc \in {"built", "failed"}
  /\ pc' = "init"
  /\ prev_run' = IF scene_frame.built
                  THEN [scene_frame |-> scene_frame, hash_seed |-> hash_seed]
                  ELSE prev_run
  /\ scene_frame' = NoFrame
  /\ sample_token' = NoToken
  /\ annotations' = <<>>
  /\ walked' = <<>>
  /\ error' = ""
  /\ UNCHANGED <<nusc, hash_seed, USE_GPT, call>>

\* the application is started again: a new interpreter, a new hash seed, the
\* import of the client tried again
Restart ==
  /\ pc \in {"built", "failed"}
  /\ pc' = "init"
  /\ hash_seed' \in HashSeeds
  /\ USE_GPT' \in BOOLEAN
  /\ prev_run' = IF scene_frame.built
                  THEN [scene_frame |-> scene_frame, hash_seed |-> hash_seed]
                  ELSE prev_run
  /\ scene_frame' = NoFrame
  /\ sample_token' = NoToken
  /\ annotations' = <<>>
  /\ walked' = <<>>
  /\ error' = ""
  /\ UNCHANGED <<nusc, call>>

Next ==
  \/ ComputeEgo
  \/ WalkStep
  \/ BuildList
  \/ Answer
  \/ QueryExist
  \/ QueryCount
  \/ SummarizeScene
  \/ QuickSceneSummary
  \/ Return
  \/ Rerun
  \/ Restart

Spec == Init /\ [][Next]_vars

\* the build runs to completion once started
FairSpec == Spec /\ WF_vars(ComputeEgo) /\ WF_vars(WalkStep) /\ WF_vars(BuildList)

TypeOK == pc \in {"init", "walk", "built", "answered", "failed"}


\* ================================================================ claims
Ready == pc \in {"built", "answered"}
Instances == {scene_frame.instances[k] : k \in 1..Len(scene_frame.instances)}

\* C1: answer(scene, question) never raises, whatever the question text: a
\* question with a recognised phrase but without the tokens expected after it
\* still gets an answer value.
AnswerNeverRaises ==
  call.op = "answer" => call.result.kind # "raise"

\* the patterns of the question router in their documented order
Patterns == <<
  [keys |-> { <<"p","a","s","s","e","n","g","e","r">> },                  handler |-> "passenger"],
  [keys |-> { <<"i","s"," ","t","h","e","r","e">> },                   handler |-> "exist"],
  [keys |-> { <<"h","o","w"," ","m","a","n","y">> },                   handler |-> "count"],
  [keys |-> { <<"w","h","a","t"," ","o","b","j","e","c","t","s">>, <<"w","h","a","t"," ","i","s">> },  handler |-> "list"],
  [keys |-> { <<"w","h","i","c","h"," ","i","s"," ","c","l","o","s","e","r">> },            handler |-> "closer"],
  [keys |-> { <<"d","e","s","c","r","i","b","e"," ","t","h","e"," ","s","c","e","n","e">> },         handler |-> "describe"] >>

MatchedPatterns(q) ==
  {i \in 1..Len(Patterns) : \E key \in Patterns[i].keys : Contains(q, key)}

EarliestPattern(q) ==
  IF MatchedPatterns(q) = {} THEN "unsupported"
  ELSE Patterns[CHOOSE i \in MatchedPatterns(q) : \A j \in MatchedPatterns(q) : i <= j].handler

\* C2: answer() runs the handler of the earliest pattern, in the documented
\* order, that the lower-cased question contains; 'passenger' gives the fixed
\* unsupported-data text, and a question matching no pattern (as 'What color
\* is the sky?') gives the fixed not-supported text.
DispatchOrder ==
  call.op = "answer" =>
    LET h == EarliestPattern(Lower(call.question))
    IN /\ call.handler = h
       /\ h = "passenger" => call.result = StrVal(PassengerText)
       /\ h = "unsupported" => call.result = StrVal(NotSupportedText)
       /\ h = "exist" => call.result \in {StrVal(<<"Y","e","s">>), StrVal(<<"N","o">>), Raised("IndexError")}
       /\ h = "count" => call.result.kind \in {"int", "raise"}
       /\ h = "describe" => call.result = StrVal(summarize_scene(scene_frame))
       /\ call.question = <<"W","h","a","t"," ","c","o","l","o","r"," ","i","s"," ","t","h","e"," ","s","k","y","?">> => call.result = StrVal(NotSupportedText)

\* a question with the keywords of two patterns was routed to the earlier one
DispatchOrderWitness ==
  /\ call.op = "answer"
  /\ Cardinality(MatchedPatterns(Lower(call.question))) >= 2
  /\ Contains(Lower(call.question), <<"h","o","w"," ","m","a","n","y">>)
  /\ call.handler = "exist"

LeftPedestrians ==
  {k \in 1..Len(scene_frame.instances) :
     /\ Contains(scene_frame.instances[k].category_name, <<"p","e","d","e","s","t","r","i","a","n">>)
     /\ SumAxis(scene_frame.instances[k].locations, 1) < 0}

\* C3: 'How many pedestrians are to my left?' returns the number of pedestrian
\* instances whose mean lateral offset is to the left.
PedestriansLeftCounted ==
  (call.op = "answer" /\ call.question = <<"H","o","w"," ","m","a","n","y"," ","p","e","d","e","s","t","r","i","a","n","s"," ","a","r","e"," ","t","o"," ","m","y"," ","l","e","f","t","?">>)
    => call.result = IntVal(Cardinality(LeftPedestrians))

\* C4: 'Which is closer, bus or truck?' returns the term whose matching
\* instances have the smaller minimum mean distance from the origin, a term
\* without instances counting as infinitely far.
CloserReturnsNearer ==
  (call.op = "answer" /\ call.question = <<"W","h","i","c","h"," ","i","s"," ","c","l","o","s","e","r",","," ","b","u","s"," ","o","r"," ","t","r","u","c","k","?">>) =>
    LET bus == NearestDistance(scene_frame, <<"b","u","s">>)
        truck == NearestDistance(scene_frame, <<"t","r","u","c","k">>)
    IN /\ Less(bus, truck) => call.result = StrVal(<<"b","u","s">>)
       /\ Less(truck, bus) => call.result \in {StrVal(<<"t","r","u","c","k">>), StrVal(<<"t","r","u","c","k","?">>)}

ServiceFailed == call.op = "quick_scene_summary" /\ call.handler = "failed"

\* C5 as claimed: when the summarization service call fails,
\* quick_scene_summary shows the raw summary of summarize_scene, truncated to
\* the display length, and does not propagate the failure.
FailureDegradesToRawSummary ==
  ServiceFailed => call.result = StrVal(Truncated(summarize_scene(scene_frame)))

\* C5: when the summarization service call fails, quick_scene_summary returns
\* the fixed text 'Scene summary unavailable (GPT error).' and does not
\* propagate the failure; the raw summary cut to 200 characters plus '...' is
\* what it returns when there is no summarization client.
FailureGivesFixedText ==
  /\ ServiceFailed => call.result = StrVal(GptErrorText)
  /\ (call.op = "quick_scene_summary" /\ call.handler = "no_client") =>
       /\ call.result.kind = "str"
       /\ Len(call.result.str) <= SummaryLimit + 3
       /\ LET raw == summarize_scene(scene_frame)
          IN IF Len(raw) <= SummaryLimit THEN call.result.str = raw
             ELSE /\ SubSeq(call.result.str, 1, SummaryLimit) = SubSeq(raw, 1, SummaryLimit)
                  /\ Len(call.result.str) = SummaryLimit + 3

\* the service call failed on a scene that has a non-empty raw summary
FailureGivesFixedTextWitness ==
  /\ ServiceFailed
  /\ Len(summarize_scene(scene_frame)) > 0

DirectionSet == {Directions[k] : k \in 1..Len(Directions)}

\* C6: for every category substring c and direction d, query_exist(c, d) is
\* true exactly when query_count(c, d) > 0.
ExistIffCountPositive ==
  /\ pc = "built" =>
       \A obj \in QueryObjects, d \in DirectionSet :
          query_exist(scene_frame, obj, d) <=> (query_count(scene_frame, obj, d) > 0)
  /\ call.op = "query_exist" =>
       (call.result = StrVal(<<"T","r","u","e">>)
          <=> query_count(scene_frame, call.obj, call.direction) > 0)

\* a scene where one object exists in one direction and not in another
ExistIffCountPositiveWitness ==
  /\ call.op = "query_exist"
  /\ call.result = StrVal(<<"T","r","u","e">>)
  /\ \E obj \in QueryObjects, d1, d2 \in DirectionSet :
       /\ query_exist(scene_frame, obj, d1)
       /\ ~query_exist(scene_frame, obj, d2)
       /\ query_count(scene_frame, obj, d1) > 0
       /\ query_count(scene_frame, obj, d2) = 0

\* C7: building the same scene twice yields two scenes with identical results
\* for every query: query_exist, query_count, the category list text, the
\* nearest-of-two result and the summary text.
RebuildGivesSameResults ==
  (pc = "built" /\ prev_run.scene_frame.built) =>
    /\ summarize_scene(prev_run.scene_frame) = summarize_scene(scene_frame)
    /\ \A question \in Questions :
         answer(prev_run.scene_frame, prev_run.hash_seed, question).result
           = answer(scene_frame, hash_seed, question).result
    /\ \A obj \in QueryObjects, d \in DirectionSet :
         /\ query_exist(prev_run.scene_frame, obj, d) = query_exist(scene_frame, obj, d)
         /\ query_count(prev_run.scene_frame, obj, d) = query_count(scene_frame, obj, d)

\* C8: queries are pure reads: a step of answer(), query_exist(),
\* query_count(), summarize_scene() or quick_scene_summary(), and the return
\* from it, leave the dataset, the ego track and the list of instances
\* (membership, order, category names, locations) unchanged.
QueriesArePureReads ==
  [][(Ready /\ Ready') => (scene_frame' = scene_frame /\ nusc' = nusc)]_vars

\* a question was answered on a built scene of several instances
QueriesArePureReadsWitness ==
  /\ pc = "answered"
  /\ call.op = "answer"
  /\ scene_frame.built
  /\ Len(scene_frame.instances) >= 2
  /\ scene_frame.instances[1] # scene_frame.instances[2]

\* C9 as claimed: exact zero falls in the behind / right bucket, so every
\* instance is in exactly one of ahead / behind and exactly one of left /
\* right, and query_count(c, ahead) + query_count(c, behind) =
\* query_count(c, none).
ZeroIsBehindAndRight ==
  pc = "built" =>
    /\ \A inst \in Instances :
         /\ is_ahead(inst) # is_behind(inst)
         /\ is_left(inst) # is_right(inst)
         /\ SumAxis(inst.locations, 2) = 0 => (is_behind(inst) /\ ~is_ahead(inst))
         /\ SumAxis(inst.locations, 1) = 0 => (is_right(inst) /\ ~is_left(inst))
    /\ \A obj \in QueryObjects :
         query_count(scene_frame, obj, "ahead") + query_count(scene_frame, obj, "behind")
           = query_count(scene_frame, obj, "")

OnAxis(obj, axis) ==
  {k \in 1..Len(scene_frame.instances) :
     /\ Contains(scene_frame.instances[k].category_name, obj)
     /\ SumAxis(scene_frame.instances[k].locations, axis) = 0}

\* C9: the directional tests are strict on both sides: an instance whose mean
\* longitudinal offset is exactly 0 is neither ahead nor behind, one whose
\* mean lateral offset is exactly 0 is neither left nor right, every other
\* instance is in exactly one bucket of the axis, and query_count(c, ahead) +
\* query_count(c, behind) is query_count(c, none) less the matching instances
\* with zero mean longitudinal offset.
ZeroIsInNoBucket ==
  pc = "built" =>
    /\ \A inst \in Instances :
         /\ SumAxis(inst.locations, 2) = 0 => (~is_ahead(inst) /\ ~is_behind(inst))
         /\ SumAxis(inst.locations, 1) = 0 => (~is_left(inst) /\ ~is_right(inst))
         /\ SumAxis(inst.locations, 2) # 0 => (is_ahead(inst) # is_behind(inst))
         /\ SumAxis(inst.locations, 1) # 0 => (is_left(inst) # is_right(inst))
    /\ \A obj \in QueryObjects :
         /\ query_count(scene_frame, obj, "ahead") + query_count(scene_frame, obj, "behind")
              = query_count(scene_frame, obj, "") - Cardinality(OnAxis(obj, 2))
         /\ query_count(scene_frame, obj, "left") + query_count(scene_frame, obj, "right")
              = query_count(scene_frame, obj, "") - Cardinality(OnAxis(obj, 1))

\* a built scene with an instance of zero mean longitudinal offset and one of
\* zero mean lateral offset
ZeroIsInNoBucketWitness ==
  /\ pc = "built"
  /\ \E obj \in QueryObjects : OnAxis(obj, 2) # {}
  /\ \E obj \in QueryObjects : OnAxis(obj, 1) # {}
  /\ \E inst \in Instances : is_ahead(inst) /\ is_left(inst)

\* the samples that the chain of next-links leads to from the first sample
ChainSamples == Reach(nusc.next, nusc.first_sample_token, {})
ChainEnds == \E s \in ChainSamples : nusc.next[s] = NoToken

WalkedChainOnce ==
  /\ Len(walked) = Cardinality(ChainSamples)
  /\ {walked[k] : k \in 1..Len(walked)} = ChainSamples
  /\ walked[1] = nusc.first_sample_token
  /\ \A k \in 1..(Len(walked) - 1) : walked[k + 1] = nusc.next[walked[k]]
  /\ nusc.next[walked[Len(walked)]] = NoToken

====
